---- MODULE Spec2Model ----
(***************************************************************************)
(* springd: the concurrent request engine and its statistics pipeline.     *)
(*                                                                         *)
(* One run of Task::run: C workers loop admit -> build -> execute ->       *)
(* complete_job -> send; the aggregator folds the outcomes; the sampler    *)
(* snapshots current_cumulative on every interval tick; the orchestrator   *)
(* joins the tasks in order and runs the summary.  An external caller may  *)
(* invoke Dispatcher::cancel through the write half of dispatcher_lock.    *)
(*                                                                         *)
(* Time is discrete.  One tick of the clock is 1/rate seconds when a rate  *)
(* is configured (the limiter's replenish interval) and one second when    *)
(* none is.  Every atomic load / store / fetch_add that another task can   *)
(* observe is a step of its own; steps that touch only data private to one *)
(* task are folded into the neighbouring step.                             *)
(***************************************************************************)
EXTENDS Integers, Sequences, FiniteSets, TLC

\* ------------------------------------------------------------------ bounds
NumWorkers == 2        \* largest arg.connections explored
MaxTotal == 2          \* largest request budget N explored
MaxDuration == 2       \* largest time budget explored, in ticks
MaxRate == 1           \* largest configured rate explored (0 = no limiter)
MaxSamples == 2        \* req_per_second entries kept apart
MaxCancels == 2        \* cancel() calls explored
MaxDelay == 1          \* longest rsp_at - req_at of a request of a run, in ns
MaxElapsed == 3        \* summary alone: most entries and longest entry (ns)
                       \* of elapsed_time
ChanCap == 1           \* capacity of the outcome channel explored

\* ------------------------------------------------------- program constants
SamplePeriodSecs == 2  \* ttime::interval(Duration::from_secs(2))

\* the duration of the run whose samples are counted, in seconds, and the
\* number of its samples kept apart
SampledDuration == 3
MaxSampled == 3

MaxTime == MaxDuration + 1   \* the longest horizon of the clock
MaxJobs == MaxTotal          \* duration mode: admissions explored

Workers == 1..NumWorkers
\* the status codes at the edges of the arms of statistics_rsp_code; StatusCode
\* holds 100..=999
Codes == {100, 199, 200, 299, 300, 399, 400, 499, 500, 511, 512, 599, 999}

\* the counters rsp1xx .. rsp5xx, rsp_others
Buckets == {"rsp1xx", "rsp2xx", "rsp3xx", "rsp4xx", "rsp5xx", "rsp_others"}

\* no Message held
NoMessage == [ok |-> FALSE, status |-> -1, elapsed |-> 0]

\* the percentiles requested when none is given, in hundredths
DefaultPercentiles == <<50, 75, 90, 99>>

\* percentiles a caller of summary may pass, in hundredths: f32 values below,
\* at and above 1.0
Percents == {50, 90, 100, 150}

Min(a, b) == IF a < b THEN a ELSE b
Max(a, b) == IF a > b THEN a ELSE b

RECURSIVE SumSeq(_)
SumSeq(s) == IF s = <<>> THEN 0 ELSE Head(s) + SumSeq(Tail(s))

VARIABLES
    \* configuration (Arg), fixed by Init
    mode,               \* "count" (arg.requests) or "duration" (arg.duration)
    total,              \* CountDispatcher.total
    duration,           \* DurationDispatcher.duration, in ticks
    rate,               \* arg.rate, 0 for None
    rate_arg,           \* arg.rate as parsed: -1 for None, else Some(rate_arg)
    build_ok,           \* whether build_request succeeds for this Arg
    connections,        \* arg.connections: the number of workers spawned
    cancel_budget,      \* how many times the environment calls cancel()
    audit,              \* whether the history of limiter permits is kept
    ok_codes,           \* status codes the server answers with
    err_codes,          \* status codes an Err may carry (besides none)
    \* dispatcher
    applied, completed, is_canceled, is_done,
    d_total,            \* DurationDispatcher.total
    canceled_at,        \* DurationDispatcher.canceled_at, -1 for None
    tokens,             \* cells left in the limiter's bucket
    readers,            \* workers holding dispatcher_lock.read()
    \* the clock
    now,
    \* workers
    pc, resp,
    \* outcome channel
    chan,
    \* aggregator task and Statistics
    a_pc, a_msg,
    stat_total, total_success, current_cumulative, errors, elapsed_time,
    req_per_second, is_stopped, \* sampler task
    stopped_at,         \* Statistics.stopped_at: "none" or "some"
    rsp,                \* Statistics.rsp1xx .. rsp_others, by name
    percentiles,        \* the percentiles requested, in hundredths
    latencies,          \* Statistics.latencies: <<percentile, duration>> pairs
    avg_req_elapsed_time, max_req_elapsed_time,
    stdev_req_elapsed_time,
    stdev_per_second,   \* an f64, as the quotient <<n, d>> whose root it is
    throughput,         \* an f64, as a quotient <<n, d>>
    sm_pc, sm_i,        \* the summary task: its position, its loop index
    s_pc, timer_left,
    \* orchestrator
    o_pc, workers_done,
    \* caller of cancel()
    k_pc, cancels,
    \* history
    admitted,           \* number of try_apply_job calls that returned true
    sent,               \* number of outcomes put on the channel
    trace,              \* per worker: events of the current loop iteration
    admit_obs,          \* duration mode: clock readings of the admitting checks
    late,               \* per worker: complete_job calls begun after a cancel()
                        \* had returned
    permits,            \* permits[t]: limiter permits issued at instant t (the
                        \* last instant stands for every later one)
    coded_errors        \* number of errors folded that carried a status

cfgv == <<mode, total, duration, rate, rate_arg, build_ok, connections, cancel_budget,
          audit, ok_codes, err_codes>>
foldv == <<rsp, coded_errors>>
sumv == <<percentiles, latencies, avg_req_elapsed_time, max_req_elapsed_time,
          stdev_req_elapsed_time, stdev_per_second, throughput, sm_pc, sm_i>>
dispv == <<applied, completed, is_canceled, is_done, d_total, canceled_at>>
statv == <<stat_total, total_success, current_cumulative, errors, elapsed_time,
           req_per_second>>
histv == <<admitted, sent, trace, admit_obs, late, permits>>
vars == <<cfgv, foldv, sumv, dispv, tokens, readers, now, pc, resp, chan, a_pc, a_msg,
          statv, is_stopped, stopped_at, s_pc, timer_left, o_pc,
          workers_done, k_pc, cancels, histv>>

\* Statistics.errors, a map from the error's message to its count.  The
\* message of an error, format!("{err}"), is modelled by the status the error
\* carries (0 for none): reqwest prints the status of a status error.
NoErrors == [k \in {} |-> 0]

ErrorKey(message) == message.status

\* an entry that is set to 1 whether the key is there or not
CountedOnce(map, key) ==
    [k \in DOMAIN map \cup {key} |-> IF k = key THEN 1 ELSE map[k]]

\* errors.entry(key).and_modify(|count| *count += 1).or_insert(1)
Counted(map, key) ==
    IF key \in DOMAIN map
      THEN [map EXCEPT ![key] = @ + 1]
      ELSE [k \in DOMAIN map \cup {key} |-> IF k = key THEN 1 ELSE map[k]]

RECURSIVE SumOfMap(_, _)
SumOfMap(map, keys) ==
    IF keys = {} THEN 0
    ELSE LET k == CHOOSE x \in keys : TRUE
         IN  map[k] + SumOfMap(map, keys \ {k})

\* the f64 0.0, as a quotient
Zero == <<0, 1>>

\* an f64 quotient is a finite number: x / 0.0 is an infinity and 0.0 / 0.0 a
\* NaN
Finite(q) == q[2] # 0

\* the sum of the values of the errors map
error_count == SumOfMap(errors, DOMAIN errors)

\* elapsed_time.len()
elapsed_len == Len(elapsed_time)

\* DurationDispatcher.start: Instant::now() at construction, the clock's origin
start == 0

\* The clock saturates where no later reading can compare differently: past the
\* deadline of a DurationDispatcher; a CountDispatcher reads no clock at all.
\* The history of permits is kept by instant, up to MaxTime.  (Timers and the
\* bucket keep running on every tick.)
Horizon ==
    IF rate > 0 /\ audit THEN MaxTime
    ELSE IF mode = "duration" THEN duration + 1
    ELSE 0

TicksPerSec == IF rate = 0 THEN 1 ELSE rate
\* an interval of one second
PeriodOneSecond == TicksPerSec
Period == SamplePeriodSecs * TicksPerSec

\* the state after Task::new for one configuration c
\* arg.rate of a configuration whose limiter has rate r (0: no limiter)
AsArg(r) == IF r = 0 THEN 0 - 1 ELSE r

\* the state at position o_pc = at of main: "new" before Task::new, with arg.rate
\* = given, "start" after it
StartAt(c, at, given) ==
    /\ mode = c.mode /\ total = c.total /\ duration = c.duration
    /\ rate = c.rate /\ rate_arg = given /\ build_ok = c.build_ok
    /\ connections = c.connections /\ cancel_budget = c.cancel_budget
    /\ audit = c.audit
    /\ ok_codes = c.ok_codes /\ err_codes = c.err_codes
    /\ rsp = [b \in Buckets |-> 0] /\ coded_errors = 0
    /\ applied = 0 /\ completed = 0
    /\ is_canceled = FALSE /\ is_done = FALSE
    /\ d_total = 0 /\ canceled_at = -1
    /\ tokens = IF at = "new" THEN 0 ELSE rate
    /\ readers = {}
    /\ now = 0
    /\ pc = [w \in Workers |-> IF w <= c.connections THEN "apply" ELSE "absent"]
    /\ resp = [w \in Workers |-> NoMessage]
    /\ chan = <<>>
    /\ a_pc = "recv" /\ a_msg = NoMessage
    /\ stat_total = 0 /\ total_success = 0 /\ current_cumulative = 0
    /\ errors = NoErrors /\ elapsed_time = <<>>
    /\ percentiles = DefaultPercentiles /\ latencies = <<>>
    /\ avg_req_elapsed_time = 0 /\ max_req_elapsed_time = 0
    /\ stdev_req_elapsed_time = 0
    /\ stdev_per_second = Zero /\ throughput = Zero
    /\ sm_pc = "start" /\ sm_i = 1
    /\ req_per_second = <<>>
    /\ is_stopped = FALSE /\ stopped_at = "none"
    /\ s_pc = "init" /\ timer_left = 0
    /\ o_pc = at /\ workers_done = FALSE
    /\ k_pc = "idle" /\ cancels = 0
    /\ admitted = 0 /\ sent = 0
    /\ trace = [w \in Workers |-> <<>>]
    /\ admit_obs = {}
    /\ late = [w \in Workers |-> 0]
    /\ permits = [t \in 0..MaxTime |-> 0]

\* the state after Task::new
Start(c) == StartAt(c, "start", AsArg(c.rate))

CountConfigs ==
    [mode : {"count"}, total : 0..MaxTotal, duration : {0}, rate : 0..MaxRate,
     build_ok : BOOLEAN, connections : 1..NumWorkers,
     cancel_budget : 0..MaxCancels, audit : BOOLEAN,
     ok_codes : {{200}, Codes}, err_codes : {{}, Codes}]

DurationConfigs ==
    [mode : {"duration"}, total : {0}, duration : 0..MaxDuration,
     rate : 0..MaxRate, build_ok : BOOLEAN, connections : 1..NumWorkers,
     cancel_budget : 0..MaxCancels, audit : BOOLEAN,
     ok_codes : {{200}, Codes}, err_codes : {{}, Codes}]

Configs == CountConfigs \cup DurationConfigs

\* a server that answers 200 or fails without a status
Plain(c) == c.ok_codes = {200} /\ c.err_codes = {}

\* Task::run as written: nothing in the program calls cancel().  Two workers
\* are explored for a CountDispatcher without limiter, one worker for every
\* other configuration.
RunConfigs ==
    {c \in Configs :
        /\ c.cancel_budget = 0 /\ ~c.audit /\ Plain(c)
        /\ c.connections = 1 \/ (c.mode = "count" /\ c.rate = 0)}

Init == \E c \in RunConfigs : Start(c)

Spawned == o_pc \notin {"new", "failed", "start"}

\* ---------------------------------------------------------------- workers
\* tokio's RwLock queues fairly: a reader arriving behind a queued writer waits
CanRead == k_pc # "waiting"

CancelReturned == cancels >= 1

Goto(w, l) == pc' = [pc EXCEPT ![w] = l]
NoteLate(w) == late' = [late EXCEPT ![w] = IF CancelReturned THEN @ + 1 ELSE @]
Log(w, e) == trace' = [trace EXCEPT ![w] = Append(@, e)]

\* a loop that carries on after a refusal
ReturnFalseCarryOn(w) ==
    /\ Goto(w, "build")
    /\ readers' = readers \ {w}
    /\ trace' = [trace EXCEPT ![w] = <<>>]
    /\ UNCHANGED admitted

\* try_apply_job returns false: the read guard is dropped and the loop breaks
ReturnFalse(w) ==
    /\ Goto(w, "exited")
    /\ readers' = readers \ {w}
    /\ trace' = [trace EXCEPT ![w] = <<>>]
    /\ UNCHANGED admitted

\* try_apply_job returns true: the read guard is dropped, the job is the worker's
ReturnTrue(w) ==
    /\ Goto(w, "build")
    /\ readers' = readers \ {w}
    /\ admitted' = admitted + 1
    /\ Log(w, "admit")

\* a flag check that looks at is_done alone
RefusedIgnoringCancel == is_done

\* the first statement of try_apply_job, both variants
Refused == is_done \/ is_canceled

AfterFlags == IF rate > 0 THEN "limit" ELSE IF mode = "count" THEN "load" ELSE "deadline"

\* worker(): dispatcher_lock.read().await.try_apply_job(): lock and flag check
TryApplyJob(w) ==
    /\ Spawned /\ pc[w] = "apply" /\ CanRead
    /\ IF Refused
         THEN ReturnFalse(w)
         ELSE /\ Goto(w, AfterFlags)
              /\ readers' = readers \cup {w}
              /\ trace' = [trace EXCEPT ![w] = <<>>]
              /\ UNCHANGED admitted
    /\ UNCHANGED <<cfgv, sumv, foldv, dispv, tokens, now, resp, chan, a_pc, a_msg, statv,
                   is_stopped, stopped_at, s_pc, timer_left, o_pc,
                   workers_done, k_pc, cancels, sent, admit_obs, late, permits>>

\* an allow() that returns without a cell having been granted
AllowUnchecked(w) ==
    /\ pc[w] = "limit"
    /\ permits' = IF audit THEN [permits EXCEPT ![now] = @ + 1] ELSE permits
    /\ Goto(w, IF mode = "count" THEN "load" ELSE "deadline")
    /\ UNCHANGED <<cfgv, sumv, foldv, dispv, tokens, readers, now, resp, chan, a_pc, a_msg,
                   statv, is_stopped, stopped_at, s_pc, timer_left, o_pc, workers_done, k_pc,
                   cancels, admitted, sent, trace, admit_obs, late>>

\* Limiter::allow: loops (sleeping 100 ns) until inner.check() grants a cell
Allow(w) ==
    /\ pc[w] = "limit" /\ tokens > 0
    /\ tokens' = tokens - 1
    /\ permits' = IF audit THEN [permits EXCEPT ![now] = @ + 1] ELSE permits
    /\ Goto(w, IF mode = "count" THEN "load" ELSE "deadline")
    /\ UNCHANGED <<cfgv, sumv, foldv, dispv, readers, now, resp, chan, a_pc, a_msg, statv,
                   is_stopped, stopped_at, s_pc, timer_left, o_pc,
                   workers_done, k_pc, cancels, admitted, sent, trace, admit_obs, late>>

\* CountDispatcher: `if self.applied.load(Acquire) < self.total`
HasChance == applied < total

CountLoad(w) ==
    /\ pc[w] = "load"
    /\ IF HasChance
         THEN Goto(w, "fetch") /\ UNCHANGED <<readers, admitted, trace>>
         ELSE ReturnFalse(w)
    /\ UNCHANGED <<cfgv, sumv, foldv, dispv, tokens, now, resp, chan, a_pc, a_msg, statv,
                   is_stopped, stopped_at, s_pc, timer_left, o_pc,
                   workers_done, k_pc, cancels, sent, admit_obs, late, permits>>

\* a reservation check that is off by one
SurrenderLate(previous) == previous > total

\* a reservation that is never given back
SurrenderNever(previous) == FALSE

\* CountDispatcher: `if previous >= self.total { return false; }`
Surrender(previous) == previous >= total

CountFetch(w) ==
    /\ pc[w] = "fetch"
    /\ applied' = applied + 1
    /\ IF Surrender(applied) THEN ReturnFalse(w) ELSE ReturnTrue(w)
    /\ UNCHANGED <<cfgv, sumv, foldv, completed, is_canceled, is_done, d_total, canceled_at,
                   tokens, now, resp, chan, a_pc, a_msg, statv, is_stopped, stopped_at,
                   s_pc, timer_left, o_pc, workers_done,
                   k_pc, cancels, sent, admit_obs, late, permits>>

\* a deadline check that still admits at the deadline itself
ExpiredLate(t) == t - start > duration

\* DurationDispatcher: `Instant::now() - self.start >= self.duration`
Expired(t) == t - start >= duration

DurationDeadline(w) ==
    /\ pc[w] = "deadline"
    /\ IF Expired(now)
         THEN ReturnFalse(w) /\ UNCHANGED admit_obs
         ELSE /\ d_total < MaxJobs
              /\ Goto(w, "dfetch")
              /\ admit_obs' = admit_obs \cup {now}
              /\ UNCHANGED <<readers, admitted, trace>>
    /\ UNCHANGED <<cfgv, sumv, foldv, dispv, tokens, now, resp, chan, a_pc, a_msg, statv,
                   is_stopped, stopped_at, s_pc, timer_left, o_pc,
                   workers_done, k_pc, cancels, sent, late, permits>>

DurationFetch(w) ==
    /\ pc[w] = "dfetch"
    /\ d_total' = d_total + 1
    /\ ReturnTrue(w)
    /\ UNCHANGED <<cfgv, sumv, foldv, applied, completed, is_canceled, is_done, canceled_at,
                   tokens, now, resp, chan, a_pc, a_msg, statv, is_stopped, stopped_at,
                   s_pc, timer_left, o_pc, workers_done,
                   k_pc, cancels, sent, admit_obs, late, permits>>

\* worker(): build_request, panic on Err
BuildRequest(w) ==
    /\ pc[w] = "build"
    /\ IF build_ok
         THEN Goto(w, "execute") /\ Log(w, "build")
         ELSE Goto(w, "panicked") /\ UNCHANGED trace
    /\ UNCHANGED <<cfgv, sumv, foldv, dispv, tokens, readers, now, resp, chan, a_pc, a_msg,
                   statv, is_stopped, stopped_at, s_pc, timer_left,
                   o_pc, workers_done, k_pc, cancels, admitted, sent, admit_obs,
                   late, permits>>

\* Result<Response, Error>: a response with a status, or an error that may
\* carry one (status 0: err.status() is None)
Outcomes ==
    [ok : {TRUE}, status : ok_codes, elapsed : 1..MaxDelay]
      \cup [ok : {FALSE}, status : err_codes \cup {0}, elapsed : 1..MaxDelay]

\* worker(): client.execute(request).await returns a response or an error
Execute(w) ==
    /\ pc[w] = "execute"
    /\ \E r \in Outcomes : resp' = [resp EXCEPT ![w] = r]
    /\ Goto(w, "complete") /\ Log(w, "execute")
    /\ UNCHANGED <<cfgv, sumv, foldv, dispv, tokens, readers, now, chan, a_pc, a_msg, statv,
                   is_stopped, stopped_at, s_pc, timer_left, o_pc,
                   workers_done, k_pc, cancels, admitted, sent, admit_obs,
                   late, permits>>

\* CountDispatcher::complete_job under the read lock: completed.fetch_add(1)
CountComplete(w) ==
    /\ pc[w] = "complete" /\ mode = "count" /\ CanRead
    /\ readers' = readers \cup {w}
    /\ completed' = completed + 1
    /\ Goto(w, "ccheck") /\ Log(w, "complete") /\ NoteLate(w)
    /\ UNCHANGED <<cfgv, sumv, foldv, applied, is_canceled, is_done, d_total, canceled_at,
                   tokens, now, resp, chan, a_pc, a_msg, statv, is_stopped, stopped_at,
                   s_pc, timer_left, o_pc, workers_done,
                   k_pc, cancels, admitted, sent, admit_obs, permits>>

\* a completion check that fires one job early
AllCompletedButOne == completed + 1 >= total

\* CountDispatcher::complete_job: `completed >= total && !is_done` => store
AllCompleted == completed >= total

CountCompleteCheck(w) ==
    /\ pc[w] = "ccheck"
    /\ is_done' = IF AllCompleted /\ ~is_done THEN TRUE ELSE is_done
    /\ readers' = readers \ {w}
    /\ Goto(w, "send")
    /\ UNCHANGED <<cfgv, sumv, foldv, applied, completed, is_canceled, d_total, canceled_at,
                   tokens, now, resp, chan, a_pc, a_msg, statv, is_stopped, stopped_at,
                   s_pc, timer_left, o_pc, workers_done,
                   k_pc, cancels, histv>>

\* a complete_job that marks the dispatcher done without reading the clock
DurationCompleteEager(w) ==
    /\ pc[w] = "complete" /\ mode = "duration" /\ CanRead
    /\ is_done' = TRUE
    /\ Goto(w, "send") /\ Log(w, "complete") /\ NoteLate(w)
    /\ UNCHANGED <<cfgv, sumv, foldv, applied, completed, is_canceled, d_total, canceled_at,
                   tokens, readers, now, resp, chan, a_pc, a_msg, statv,
                   is_stopped, stopped_at, s_pc, timer_left, o_pc,
                   workers_done, k_pc, cancels, admitted, sent, admit_obs,
                   permits>>

\* DurationDispatcher::complete_job under the read lock
DurationComplete(w) ==
    /\ pc[w] = "complete" /\ mode = "duration" /\ CanRead
    /\ is_done' = IF Expired(now) /\ ~is_done THEN TRUE ELSE is_done
    /\ Goto(w, "send") /\ Log(w, "complete") /\ NoteLate(w)
    /\ UNCHANGED <<cfgv, sumv, foldv, applied, completed, is_canceled, d_total, canceled_at,
                   tokens, readers, now, resp, chan, a_pc, a_msg, statv,
                   is_stopped, stopped_at, s_pc, timer_left, o_pc,
                   workers_done, k_pc, cancels, admitted, sent, admit_obs,
                   permits>>

\* the Receiver is dropped when the aggregator task returns
ReceiverAlive == a_pc # "exited"

\* a worker that goes on to its next request without asking for admission
SendThenNextRequest(w) ==
    /\ pc[w] = "send"
    /\ IF ReceiverAlive
         THEN /\ Len(chan) < ChanCap
              /\ chan' = Append(chan, resp[w])
              /\ sent' = sent + 1
         ELSE UNCHANGED <<chan, sent>>
    /\ resp' = [resp EXCEPT ![w] = NoMessage]
    /\ Goto(w, "build") /\ Log(w, "send")
    /\ UNCHANGED <<cfgv, sumv, foldv, dispv, tokens, readers, now, a_pc, a_msg, statv,
                   is_stopped, stopped_at, s_pc, timer_left, o_pc,
                   workers_done, k_pc, cancels, admitted, admit_obs, late, permits>>

\* a send into a channel without capacity limit
SendUnbounded(w) ==
    /\ pc[w] = "send"
    /\ IF ReceiverAlive
         THEN /\ chan' = Append(chan, resp[w])
              /\ sent' = sent + 1
         ELSE UNCHANGED <<chan, sent>>
    /\ resp' = [resp EXCEPT ![w] = NoMessage]
    /\ Goto(w, "apply") /\ Log(w, "send")
    /\ UNCHANGED <<cfgv, sumv, foldv, dispv, tokens, readers, now, a_pc, a_msg, statv,
                   is_stopped, stopped_at, s_pc, timer_left, o_pc,
                   workers_done, k_pc, cancels, admitted, admit_obs, late, permits>>

\* worker(): `let _ = sender.send(message).await;` then the next iteration.
\* The send waits while the channel of mpsc::channel(500) is full.
Send(w) ==
    /\ pc[w] = "send"
    /\ IF ReceiverAlive
         THEN /\ Len(chan) < ChanCap
              /\ chan' = Append(chan, resp[w])
              /\ sent' = sent + 1
         ELSE UNCHANGED <<chan, sent>>
    /\ resp' = [resp EXCEPT ![w] = NoMessage]
    /\ Goto(w, "apply") /\ Log(w, "send")
    /\ UNCHANGED <<cfgv, sumv, foldv, dispv, tokens, readers, now, a_pc, a_msg, statv,
                   is_stopped, stopped_at, s_pc, timer_left, o_pc,
                   workers_done, k_pc, cancels, admitted, admit_obs, late, permits>>

Worker(w) ==
    \/ TryApplyJob(w) \/ Allow(w) \/ CountLoad(w) \/ CountFetch(w)
    \/ DurationDeadline(w) \/ DurationFetch(w) \/ BuildRequest(w) \/ Execute(w)
    \/ CountComplete(w) \/ CountCompleteCheck(w) \/ DurationComplete(w)
    \/ Send(w)

\* ------------------------------------------------------------- aggregator
\* an aggregator that counts every try_recv, the empty ones too
TryRecvCounted ==
    /\ Spawned /\ a_pc = "recv"
    /\ stat_total' = stat_total + 1
    /\ IF chan # <<>>
         THEN /\ a_msg' = Head(chan)
              /\ chan' = Tail(chan)
              /\ a_pc' = IF Head(chan).ok THEN "success" ELSE "error"
         ELSE /\ a_pc' = "check"
              /\ UNCHANGED <<a_msg, chan>>
    /\ UNCHANGED <<cfgv, sumv, foldv, dispv, tokens, readers, now, pc, resp, total_success,
                   current_cumulative, errors, elapsed_time, req_per_second,
                   is_stopped, stopped_at, s_pc, timer_left, o_pc,
                   workers_done, k_pc, cancels, histv>>

\* statistics(): receiver.try_recv(); Ok => handle_message, whose first
\* statement is total.fetch_add(1)
TryRecv ==
    /\ Spawned /\ a_pc = "recv"
    /\ IF chan # <<>>
         THEN /\ a_msg' = Head(chan)
              /\ chan' = Tail(chan)
              /\ stat_total' = stat_total + 1
              /\ a_pc' = IF Head(chan).ok THEN "success" ELSE "error"
         ELSE /\ a_pc' = "check"
              /\ UNCHANGED <<a_msg, chan, stat_total>>
    /\ UNCHANGED <<cfgv, sumv, foldv, dispv, tokens, readers, now, pc, resp, total_success,
                   current_cumulative, errors, elapsed_time, req_per_second,
                   is_stopped, stopped_at, s_pc, timer_left, o_pc,
                   workers_done, k_pc, cancels, histv>>

\* an aggregator that leaves its loop as soon as it finds the channel empty
CheckChannelEmpty ==
    /\ a_pc = "check"
    /\ a_pc' = "exited"
    /\ UNCHANGED <<cfgv, sumv, foldv, dispv, tokens, readers, now, pc, resp, chan, a_msg,
                   statv, is_stopped, stopped_at, s_pc, timer_left,
                   o_pc, workers_done, k_pc, cancels, histv>>

\* statistics(): `if self.workers_done.load(Acquire) { break; }`, else sleep
CheckWorkersDone ==
    /\ a_pc = "check"
    /\ a_pc' = IF workers_done THEN "exited" ELSE "recv"
    /\ UNCHANGED <<cfgv, sumv, foldv, dispv, tokens, readers, now, pc, resp, chan, a_msg,
                   statv, is_stopped, stopped_at, s_pc, timer_left,
                   o_pc, workers_done, k_pc, cancels, histv>>

\* a match whose fifth arm takes every 5xx status
BucketWholeFifth(status) ==
    IF status >= 100 /\ status < 200 THEN "rsp1xx"
    ELSE IF status >= 200 /\ status < 300 THEN "rsp2xx"
    ELSE IF status >= 300 /\ status < 400 THEN "rsp3xx"
    ELSE IF status >= 400 /\ status < 500 THEN "rsp4xx"
    ELSE IF status >= 500 /\ status < 600 THEN "rsp5xx"
    ELSE "rsp_others"

\* statistics_rsp_code: the arms of the match, first match wins
Bucket(status) ==
    IF status >= 100 /\ status < 200 THEN "rsp1xx"
    ELSE IF status >= 200 /\ status < 300 THEN "rsp2xx"
    ELSE IF status >= 300 /\ status < 400 THEN "rsp3xx"
    ELSE IF status >= 400 /\ status < 500 THEN "rsp4xx"
    ELSE IF status >= 500 /\ status <= 511 THEN "rsp5xx"
    ELSE "rsp_others"

StatisticsRspCode(status) == rsp' = [rsp EXCEPT ![Bucket(status)] = @ + 1]

\* a handle_resp_error that drops the error
HandleRespErrorSilent ==
    /\ a_pc = "error"
    /\ a_pc' = "recv" /\ a_msg' = NoMessage
    /\ UNCHANGED <<cfgv, sumv, foldv, dispv, tokens, readers, now, pc, resp, chan,
                   stat_total, errors,
                   total_success, current_cumulative, elapsed_time,
                   req_per_second, is_stopped, stopped_at, s_pc,
                   timer_left, o_pc, workers_done, k_pc, cancels, histv>>

\* a handle_resp_error that files every error under a status bucket
HandleRespErrorAlwaysCoded ==
    /\ a_pc = "error"
    /\ errors' = Counted(errors, ErrorKey(a_msg))
    /\ StatisticsRspCode(a_msg.status)
    /\ coded_errors' = IF a_msg.status # 0 THEN coded_errors + 1 ELSE coded_errors
    /\ a_pc' = "recv" /\ a_msg' = NoMessage
    /\ UNCHANGED <<cfgv, sumv, dispv, tokens, readers, now, pc, resp, chan, stat_total,
                   total_success, current_cumulative, elapsed_time,
                   req_per_second, is_stopped, stopped_at, s_pc,
                   timer_left, o_pc, workers_done, k_pc, cancels, histv>>

\* handle_message, Err branch: handle_resp_error counts the error under its
\* message and, `if let Some(status) = err.status()`, under its status bucket
HandleRespError ==
    /\ a_pc = "error"
    /\ errors' = Counted(errors, ErrorKey(a_msg))
    /\ IF a_msg.status # 0
         THEN StatisticsRspCode(a_msg.status) /\ coded_errors' = coded_errors + 1
         ELSE UNCHANGED <<rsp, coded_errors>>
    /\ a_pc' = "recv" /\ a_msg' = NoMessage
    /\ UNCHANGED <<cfgv, sumv, dispv, tokens, readers, now, pc, resp, chan, stat_total,
                   total_success, current_cumulative, elapsed_time,
                   req_per_second, is_stopped, stopped_at, s_pc,
                   timer_left, o_pc, workers_done, k_pc, cancels, histv>>

\* handle_message, Ok branch: statistics_rsp_code, total_success.fetch_add(1)
HandleSuccess ==
    /\ a_pc = "success"
    /\ StatisticsRspCode(a_msg.status)
    /\ total_success' = total_success + 1
    /\ a_pc' = "cumulative"
    /\ UNCHANGED <<cfgv, sumv, coded_errors, dispv, tokens, readers, now, pc, resp, chan,
                   a_msg,
                   stat_total, current_cumulative, errors, elapsed_time,
                   req_per_second, is_stopped, stopped_at, s_pc,
                   timer_left, o_pc, workers_done, k_pc, cancels, histv>>

\* a handle_message that records no elapsed time
HandleCumulativeUntimed ==
    /\ a_pc = "cumulative"
    /\ current_cumulative' = current_cumulative + 1
    /\ a_pc' = "recv" /\ a_msg' = NoMessage
    /\ UNCHANGED <<cfgv, sumv, foldv, dispv, tokens, readers, now, pc, resp, chan,
                   stat_total, elapsed_time,
                   total_success, errors, req_per_second, is_stopped, stopped_at,
                   s_pc, timer_left, o_pc, workers_done, k_pc,
                   cancels, histv>>

\* handle_message, Ok branch: current_cumulative.fetch_add(1), elapsed_time.push
HandleCumulative ==
    /\ a_pc = "cumulative"
    /\ current_cumulative' = current_cumulative + 1
    /\ elapsed_time' = Append(elapsed_time, a_msg.elapsed)
    /\ a_pc' = "recv" /\ a_msg' = NoMessage
    /\ UNCHANGED <<cfgv, sumv, foldv, dispv, tokens, readers, now, pc, resp, chan, stat_total,
                   total_success, errors, req_per_second, is_stopped, stopped_at, s_pc, timer_left, o_pc, workers_done, k_pc,
                   cancels, histv>>

Aggregator ==
    TryRecv \/ CheckWorkersDone \/ HandleRespError \/ HandleSuccess \/ HandleCumulative

\* ---------------------------------------------------------------- sampler
\* timer_per_second: ttime::interval(2 s); its first tick completes at once
TimerStart ==
    /\ Spawned /\ s_pc = "init"
    /\ timer_left' = 0
    /\ s_pc' = "tick"
    /\ UNCHANGED <<cfgv, sumv, foldv, dispv, tokens, readers, now, pc, resp, chan, a_pc,
                   a_msg, statv, is_stopped, stopped_at, o_pc,
                   workers_done, k_pc, cancels, histv>>

\* how many entries of req_per_second are kept apart: one more in the run of
\* SampledDuration seconds, whose samples are counted
SampleCap ==
    IF mode = "duration" /\ duration = SampledDuration THEN MaxSampled
    ELSE MaxSamples

\* req_per_second.push: entries past SampleCap are added to the last one
Push(samples, v) ==
    IF Len(samples) < SampleCap
      THEN Append(samples, v)
      ELSE [samples EXCEPT ![Len(samples)] = @ + v]

\* a sampler that looks at is_stopped before it appends
TimerTickStopFirst ==
    /\ s_pc = "tick" /\ timer_left <= 0
    /\ IF is_stopped
         THEN s_pc' = "exited" /\ UNCHANGED <<timer_left, req_per_second>>
         ELSE /\ timer_left' = timer_left + Period
              /\ req_per_second' = Push(req_per_second, current_cumulative)
              /\ s_pc' = "store"
    /\ UNCHANGED <<cfgv, sumv, foldv, dispv, tokens, readers, now, pc, resp, chan, a_pc,
                   a_msg, stat_total, total_success, current_cumulative, errors,
                   elapsed_time, is_stopped, stopped_at, o_pc,
                   workers_done, k_pc, cancels, histv>>

\* timer.tick().await; req_per_second.push(current_cumulative.load(Acquire))
TimerTick ==
    /\ s_pc = "tick" /\ timer_left <= 0
    /\ timer_left' = timer_left + Period
    /\ req_per_second' = Push(req_per_second, current_cumulative)
    /\ s_pc' = "store"
    /\ UNCHANGED <<cfgv, sumv, foldv, dispv, tokens, readers, now, pc, resp, chan, a_pc,
                   a_msg, stat_total, total_success, current_cumulative, errors,
                   elapsed_time, is_stopped, stopped_at, o_pc,
                   workers_done, k_pc, cancels, histv>>

\* self.current_cumulative.store(0, SeqCst)
TimerStore ==
    /\ s_pc = "store"
    /\ current_cumulative' = 0
    /\ s_pc' = "check"
    /\ UNCHANGED <<cfgv, sumv, foldv, dispv, tokens, readers, now, pc, resp, chan, a_pc,
                   a_msg, stat_total, total_success, errors, elapsed_time,
                   req_per_second, is_stopped, stopped_at, timer_left, o_pc, workers_done, k_pc, cancels, histv>>

\* a sampler loop without the is_stopped check
TimerCheckUnstopped ==
    /\ s_pc = "check"
    /\ s_pc' = "tick"
    /\ UNCHANGED <<cfgv, sumv, foldv, dispv, tokens, readers, now, pc, resp, chan, a_pc,
                   a_msg, statv, is_stopped, stopped_at, timer_left,
                   o_pc, workers_done, k_pc, cancels, histv>>

\* `if self.is_stopped.load(Acquire) { break; }`
TimerCheck ==
    /\ s_pc = "check"
    /\ s_pc' = IF is_stopped THEN "exited" ELSE "tick"
    /\ UNCHANGED <<cfgv, sumv, foldv, dispv, tokens, readers, now, pc, resp, chan, a_pc,
                   a_msg, statv, is_stopped, stopped_at, timer_left,
                   o_pc, workers_done, k_pc, cancels, histv>>

Sampler == TimerStart \/ TimerTick \/ TimerStore \/ TimerCheck

\* ----------------------------------------------------------- orchestrator
Returned(w) == pc[w] \in {"exited", "panicked", "absent"}

\* run(): reset_start_time (started_at is read by the summary alone), then the
\* aggregator, the workers and the sampler are spawned
RunStart ==
    /\ o_pc = "start"
    /\ o_pc' = "join"
    /\ UNCHANGED <<cfgv, sumv, foldv, dispv, tokens, readers, now, pc, resp, chan, a_pc,
                   a_msg, statv, is_stopped, stopped_at, s_pc, timer_left,
                   workers_done, k_pc, cancels, histv>>

\* run(): `for worker in jobs { worker.await }` then workers_done.store(true)
JoinWorkers ==
    /\ o_pc = "join"
    /\ \A w \in Workers : Returned(w)
    /\ workers_done' = TRUE
    /\ o_pc' = "stop"
    /\ UNCHANGED <<cfgv, sumv, foldv, dispv, tokens, readers, now, pc, resp, chan, a_pc,
                   a_msg, statv, is_stopped, stopped_at, s_pc,
                   timer_left, k_pc, cancels, histv>>

\* the spawned stop_timer, awaited: is_stopped.store(true), then stopped_at =
\* Some(now) (its instant is read by the summary alone)
StopTimer ==
    /\ o_pc = "stop"
    /\ is_stopped' = TRUE
    /\ stopped_at' = "some"
    /\ o_pc' = "join_statistics"
    /\ UNCHANGED <<cfgv, sumv, foldv, dispv, tokens, readers, now, pc, resp, chan, a_pc,
                   a_msg, statv, s_pc, timer_left,
                   workers_done, k_pc, cancels, histv>>

\* statistics_job.await
JoinStatistics ==
    /\ o_pc = "join_statistics"
    /\ a_pc = "exited"
    /\ o_pc' = "join_timer"
    /\ UNCHANGED <<cfgv, sumv, foldv, dispv, tokens, readers, now, pc, resp, chan, a_pc,
                   a_msg, statv, is_stopped, stopped_at, s_pc,
                   timer_left, workers_done, k_pc, cancels, histv>>

\* a run that does not wait for the sampler task
JoinTimerDetached ==
    /\ o_pc = "join_timer"
    /\ o_pc' = "summary"
    /\ UNCHANGED <<cfgv, sumv, foldv, dispv, tokens, readers, now, pc, resp, chan, a_pc,
                   a_msg, statv, is_stopped, stopped_at, s_pc,
                   timer_left, workers_done, k_pc, cancels, histv>>

\* stat_timer.await
JoinTimer ==
    /\ o_pc = "join_timer"
    /\ s_pc = "exited"
    /\ o_pc' = "summary"
    /\ UNCHANGED <<cfgv, sumv, foldv, dispv, tokens, readers, now, pc, resp, chan, a_pc,
                   a_msg, statv, is_stopped, stopped_at, s_pc,
                   timer_left, workers_done, k_pc, cancels, histv>>

\* elapsed_time.sort()
Sorted(s) == SortSeq(s, LAMBDA a, b : a < b)

\* `(count as f32 * percent) as usize`: the product, truncated (for the counts
\* and percentiles explored the f32 product truncates to the exact floor)
PercentLen(count, percent) == (count * percent) \div 100

\* num::integer::Roots::sqrt: the integer square root
Sqrt(n) == CHOOSE r \in 0..n : r * r <= n /\ (r + 1) * (r + 1) > n

\* the sum of the squares of the differences of the entries of s from mean
RECURSIVE SumSqDiff(_, _)
SumSqDiff(s, mean) ==
    IF s = <<>> THEN 0
    ELSE (Head(s) - mean) * (Head(s) - mean) + SumSqDiff(Tail(s), mean)

\* a calculate_elapsed_time without the is_empty guard: the average of no
\* entry is a division by zero
CalculateElapsedTimeUnguarded ==
    /\ o_pc = "summary" /\ sm_pc = "start"
    /\ IF elapsed_time = <<>>
         THEN /\ sm_pc' = "panicked" /\ o_pc' = "done"
              /\ UNCHANGED <<elapsed_time, avg_req_elapsed_time,
                             max_req_elapsed_time, stdev_req_elapsed_time>>
         ELSE /\ elapsed_time' = Sorted(elapsed_time)
              /\ avg_req_elapsed_time' = SumSeq(elapsed_time) \div Len(elapsed_time)
              /\ max_req_elapsed_time' = Sorted(elapsed_time)[Len(elapsed_time)]
              /\ stdev_req_elapsed_time' =
                    Sqrt(SumSqDiff(elapsed_time,
                                   SumSeq(elapsed_time) \div Len(elapsed_time))
                           \div Len(elapsed_time))
              /\ sm_pc' = "stdev" /\ UNCHANGED o_pc
    /\ UNCHANGED <<cfgv, foldv, percentiles, latencies, stdev_per_second,
                   throughput, sm_i, dispv, tokens, readers,
                   now, pc, resp, chan, a_pc,
                   a_msg, stat_total, total_success, current_cumulative, errors,
                   req_per_second, is_stopped, stopped_at, s_pc,
                   timer_left, workers_done, k_pc, cancels, histv>>

\* summary: calculate_elapsed_time sorts elapsed_time and derives the average,
\* the maximum and the standard deviation; nothing to do when elapsed_time is
\* empty.  (calculate_max_per_second and calculate_avg_per_second, before it,
\* write floats nothing reads; the latter returns on a zero interval.)
CalculateElapsedTime ==
    /\ o_pc = "summary" /\ sm_pc = "start"
    /\ IF elapsed_time = <<>>
         THEN UNCHANGED <<elapsed_time, avg_req_elapsed_time,
                          max_req_elapsed_time, stdev_req_elapsed_time>>
         ELSE /\ elapsed_time' = Sorted(elapsed_time)
              /\ avg_req_elapsed_time' = SumSeq(elapsed_time) \div Len(elapsed_time)
              /\ max_req_elapsed_time' = Sorted(elapsed_time)[Len(elapsed_time)]
              /\ stdev_req_elapsed_time' =
                    Sqrt(SumSqDiff(elapsed_time,
                                   SumSeq(elapsed_time) \div Len(elapsed_time))
                           \div Len(elapsed_time))
    /\ sm_pc' = "stdev"
    /\ UNCHANGED <<cfgv, foldv, percentiles, latencies, stdev_per_second,
                   throughput, sm_i, dispv, tokens, readers,
                   now, pc, resp, chan, a_pc,
                   a_msg, stat_total, total_success, current_cumulative, errors,
                   req_per_second, is_stopped, stopped_at, s_pc, o_pc,
                   timer_left, workers_done, k_pc, cancels, histv>>

\* calculate_stdev_per_second: "break off both ends" of req_per_second
Trimmed(samples) ==
    LET origin == IF samples[1] = 0 THEN Tail(samples) ELSE samples
    IN  IF Len(origin) >= 2 THEN SubSeq(origin, 1, Len(origin) - 1) ELSE origin

RECURSIVE SumSq(_)
SumSq(s) == IF s = <<>> THEN 0 ELSE Head(s) * Head(s) + SumSq(Tail(s))

\* the variance of the entries of s in f64: the mean of the squared
\* differences from sum / count, which is
\* (count * SumSq(s) - sum * sum) / (count * count); 0.0 / 0.0 for no entry
Variance(s) ==
    <<Len(s) * SumSq(s) - SumSeq(s) * SumSeq(s), Len(s) * Len(s)>>

\* summary: calculate_stdev_per_second; nothing to do when req_per_second is
\* empty
CalculateStdevPerSecond ==
    /\ o_pc = "summary" /\ sm_pc = "stdev"
    /\ stdev_per_second' =
          IF req_per_second = <<>> THEN stdev_per_second
          ELSE Variance(Trimmed(req_per_second))
    /\ sm_pc' = "throughput"
    /\ UNCHANGED <<cfgv, foldv, percentiles, latencies, avg_req_elapsed_time,
                   max_req_elapsed_time, stdev_req_elapsed_time, throughput,
                   sm_i, dispv, tokens, readers, now, pc, resp, chan, a_pc,
                   a_msg, statv, is_stopped, stopped_at, s_pc, o_pc,
                   timer_left, workers_done, k_pc, cancels, histv>>

\* summary: calculate_throughput: connections as f64 / avg.as_secs_f64()
CalculateThroughput ==
    /\ o_pc = "summary" /\ sm_pc = "throughput"
    /\ throughput' = <<connections, avg_req_elapsed_time>>
    /\ sm_pc' = "latencies" /\ sm_i' = 1
    /\ UNCHANGED <<cfgv, foldv, percentiles, latencies, avg_req_elapsed_time,
                   max_req_elapsed_time, stdev_req_elapsed_time,
                   stdev_per_second, dispv, tokens, readers, now, pc, resp,
                   chan, a_pc, a_msg, statv, is_stopped, stopped_at, s_pc, o_pc,
                   timer_left, workers_done, k_pc, cancels, histv>>

\* summary: one turn of the loop of calculate_latencies, or its return.
\* `sum / percent_len as u32`: Duration's Div<u32> panics on a zero divisor; a
\* panic ends the summary task, run() fails on its JoinError and is over.
CalculateLatencies ==
    /\ o_pc = "summary" /\ sm_pc = "latencies"
    /\ LET count == Len(elapsed_time)
           percent == percentiles[sm_i]
           percent_len == PercentLen(count, percent)
       IN  IF count = 0 \/ sm_i > Len(percentiles)
             THEN sm_pc' = "clear" /\ UNCHANGED <<latencies, sm_i, o_pc>>
           ELSE IF percent_len > count
             THEN sm_i' = sm_i + 1 /\ UNCHANGED <<latencies, sm_pc, o_pc>>
           ELSE IF percent_len = 0
             THEN /\ sm_pc' = "panicked" /\ o_pc' = "done"
                  /\ UNCHANGED <<latencies, sm_i>>
           ELSE /\ latencies' =
                     Append(latencies,
                            <<percent,
                              SumSeq(SubSeq(elapsed_time, 1, percent_len))
                                  \div percent_len>>)
                /\ sm_i' = sm_i + 1 /\ UNCHANGED <<sm_pc, o_pc>>
    /\ UNCHANGED <<cfgv, foldv, percentiles, avg_req_elapsed_time,
                   max_req_elapsed_time, stdev_req_elapsed_time,
                   stdev_per_second, throughput, dispv, tokens, readers,
                   now, pc, resp, chan, a_pc, elapsed_time,
                   a_msg, stat_total, total_success, current_cumulative, errors,
                   req_per_second, is_stopped, stopped_at, s_pc,
                   timer_left, workers_done, k_pc, cancels, histv>>

\* summary: clear_temporary_data, the last step; run() goes on to its end
ClearTemporaryData ==
    /\ o_pc = "summary" /\ sm_pc = "clear"
    /\ elapsed_time' = <<>>
    /\ sm_pc' = "done" /\ o_pc' = "done"
    /\ UNCHANGED <<cfgv, foldv, percentiles, latencies, avg_req_elapsed_time,
                   max_req_elapsed_time, stdev_req_elapsed_time,
                   stdev_per_second, throughput, sm_i, dispv, tokens, readers,
                   now, pc, resp, chan, a_pc,
                   a_msg, stat_total, total_success, current_cumulative, errors,
                   req_per_second, is_stopped, stopped_at, s_pc,
                   timer_left, workers_done, k_pc, cancels, histv>>

\* Statistics::summary, spawned and awaited by run()
Summary ==
    \/ CalculateElapsedTime \/ CalculateStdevPerSecond \/ CalculateThroughput
    \/ CalculateLatencies \/ ClearTemporaryData

Orchestrator ==
    \/ RunStart \/ JoinWorkers \/ StopTimer \/ JoinStatistics
    \/ JoinTimer \/ Summary

\* --------------------------------------------------------------- cancel()
\* a caller asks for dispatcher_lock.write() (cancel takes &mut self)
CancelRequest ==
    /\ k_pc = "idle" /\ cancels < cancel_budget
    /\ k_pc' = "waiting"
    /\ UNCHANGED <<cfgv, sumv, foldv, dispv, tokens, readers, now, pc, resp, chan, a_pc,
                   a_msg, statv, is_stopped, stopped_at, s_pc,
                   timer_left, o_pc, workers_done, cancels, histv>>

\* a cancel() that does not wait for the readers
CanWriteShared == TRUE

\* the write guard is granted once no read guard is out
CanWrite == readers = {}

\* a cancel() without the is_canceled check: every call records its instant
CancelAgain ==
    /\ k_pc = "waiting" /\ CanWrite
    /\ is_canceled' = TRUE
    /\ canceled_at' = IF mode = "duration" THEN now ELSE canceled_at
    /\ cancels' = cancels + 1
    /\ k_pc' = "idle"
    /\ UNCHANGED <<cfgv, sumv, foldv, applied, completed, is_done, d_total, tokens, readers,
                   now, pc, resp, chan, a_pc, a_msg, statv, is_stopped, stopped_at,
                   s_pc, timer_left, o_pc, workers_done,
                   histv>>

\* cancel(), both variants; canceled_at exists on DurationDispatcher only
Cancel ==
    /\ k_pc = "waiting" /\ CanWrite
    /\ IF ~is_canceled
         THEN /\ is_canceled' = TRUE
              /\ canceled_at' = IF mode = "duration" THEN now ELSE canceled_at
         ELSE UNCHANGED <<is_canceled, canceled_at>>
    /\ cancels' = cancels + 1
    /\ k_pc' = "idle"
    /\ UNCHANGED <<cfgv, sumv, foldv, applied, completed, is_done, d_total, tokens, readers,
                   now, pc, resp, chan, a_pc, a_msg, statv, is_stopped, stopped_at,
                   s_pc, timer_left, o_pc, workers_done,
                   histv>>

Canceller == CancelRequest \/ Cancel

\* ---------------------------------------------------------- get_process()
\* An f64 quotient is kept as <<numerator, denominator>>; a zero denominator
\* is the quotient IEEE 754 gives for it: NaN for 0/0, infinity otherwise.
\* Duration::as_secs truncates to whole seconds.
AsSecs(ticks) == ticks \div TicksPerSec

\* a progress measured by the reservations instead of the completions
CountProcessByApplied == IF is_done THEN <<1, 1>> ELSE <<applied, total>>

\* CountDispatcher::get_process
CountProcess == IF is_done THEN <<1, 1>> ELSE <<completed, total>>

\* DurationDispatcher::get_process
DurationProcess ==
    IF is_done THEN <<1, 1>>
    ELSE IF is_canceled /\ canceled_at >= 0
           THEN <<AsSecs(canceled_at - start), AsSecs(duration)>>
           ELSE <<AsSecs(now - start), AsSecs(duration)>>

GetProcess == IF mode = "count" THEN CountProcess ELSE DurationProcess

\* -------------------------------------------------------------- the clock
\* one tick passes: the bucket gains a cell (capacity = rate), the interval
\* timer runs down (missed ticks are owed, up to one period), the clock moves
\* Quota::per_second(rate): one cell is replenished every 1/rate s, up to rate
Replenish(cells) == Min(cells + 1, rate)

\* ttime::interval(2 s), MissedTickBehavior::Burst: ticks not yet taken stay owed
RunDown(left) == Max(left - 1, 0 - Period)

Tick ==
    /\ now' = Min(now + 1, Horizon)
    /\ tokens' = Replenish(tokens)
    /\ timer_left' = IF s_pc = "init" THEN timer_left ELSE RunDown(timer_left)
    /\ UNCHANGED <<cfgv, sumv, foldv, dispv, readers, pc, resp, chan, a_pc, a_msg, statv,
                   is_stopped, stopped_at, s_pc, o_pc, workers_done,
                   k_pc, cancels, histv>>

\* Task::run: the tasks of the program
Next ==
    \/ \E w \in Workers : Worker(w)
    \/ Aggregator
    \/ Sampler
    \/ Orchestrator
    \/ Tick

Spec == Init /\ [][Next]_vars

\* The runtime polls every task that is ready, the clock advances and every
\* request returns.
Fairness ==
    /\ \A w \in Workers : WF_vars(Worker(w))
    /\ WF_vars(Aggregator)
    /\ WF_vars(Sampler)
    /\ WF_vars(Orchestrator)
    /\ WF_vars(Tick)

FairSpec == Spec /\ Fairness

\* The request engine with a caller of cancel(): dispatcher, limiter, workers,
\* channel, aggregator and the two orchestrator steps they wait for.  The
\* sampler and the rest of the shutdown read and write none of the engine's
\* variables.
EngineNext ==
    \/ \E w \in Workers : Worker(w)
    \/ Aggregator
    \/ RunStart
    \/ JoinWorkers
    \/ Canceller
    \/ Tick

\* one call of cancel() at most, except in the runs that look at a repeated one
EngineInit ==
    \E c \in Configs :
        c.cancel_budget < MaxCancels /\ ~c.audit /\ Plain(c) /\ Start(c)

EngineSpec == EngineInit /\ [][EngineNext]_vars

\* The runtime polls every task that is ready, the clock advances, requests
\* return and a requested cancel() is carried out.
EngineFairness ==
    /\ \A w \in Workers : WF_vars(Worker(w))
    /\ WF_vars(Aggregator)
    /\ WF_vars(RunStart) /\ WF_vars(JoinWorkers)
    /\ WF_vars(Cancel)
    /\ WF_vars(Tick)

\* the runs of the engine in which the environment may call cancel()
CancelInit ==
    \E c \in Configs :
        /\ c.cancel_budget >= 1 /\ c.cancel_budget < MaxCancels
        /\ ~c.audit /\ Plain(c) /\ Start(c)

FairCancelSpec == CancelInit /\ [][EngineNext]_vars /\ EngineFairness

\* Task::run with --duration SampledDuration, one worker, no limiter; and with
\* --requests, one worker and a limiter
SampledConfigs ==
    [mode : {"duration"}, total : {0}, duration : {SampledDuration},
     rate : {0}, build_ok : BOOLEAN, connections : {1},
     cancel_budget : {0}, audit : {FALSE}, ok_codes : {{200}},
     err_codes : {{}}]

SamplerInit ==
    \/ \E c \in SampledConfigs : Start(c)
    \/ \E c \in RunConfigs :
          c.mode = "count" /\ c.connections = 1 /\ c.rate >= 1 /\ Start(c)

SamplerSpec == SamplerInit /\ [][Next]_vars

FairSamplerSpec == SamplerSpec /\ Fairness

\* ------------------------------------- the CountDispatcher of task/dispatcher.rs
\* try_apply_job: `if is_done || is_canceled { return false }`, under the
\* worker's read lock
LegacyTryApplyJob(w) ==
    /\ Spawned /\ pc[w] = "apply" /\ CanRead
    /\ IF Refused
         THEN ReturnFalse(w)
         ELSE /\ Goto(w, "load")
              /\ readers' = readers \cup {w}
              /\ trace' = [trace EXCEPT ![w] = <<>>]
              /\ UNCHANGED admitted
    /\ UNCHANGED <<cfgv, sumv, foldv, dispv, tokens, now, resp, chan, a_pc, a_msg, statv,
                   is_stopped, stopped_at, s_pc, timer_left, o_pc,
                   workers_done, k_pc, cancels, sent, admit_obs, late, permits>>

\* what follows the `if applied < total { .. }` block: the limiter loop when
\* there is a limiter, then `true`
LegacyAfterCount(w) ==
    IF rate > 0
      THEN Goto(w, "limit") /\ UNCHANGED <<readers, admitted, trace>>
      ELSE ReturnTrue(w)

\* `if self.applied.load(Acquire) < self.total {`: the block has no else
LegacyCountLoad(w) ==
    /\ pc[w] = "load"
    /\ IF HasChance
         THEN Goto(w, "fetch") /\ UNCHANGED <<readers, admitted, trace>>
         ELSE LegacyAfterCount(w)
    /\ UNCHANGED <<cfgv, sumv, foldv, dispv, tokens, now, resp, chan, a_pc, a_msg, statv,
                   is_stopped, stopped_at, s_pc, timer_left, o_pc,
                   workers_done, k_pc, cancels, sent, admit_obs, late, permits>>

\* `let previous = applied.fetch_add(1); if previous >= total { return false }`
LegacyCountFetch(w) ==
    /\ pc[w] = "fetch"
    /\ applied' = applied + 1
    /\ IF Surrender(applied) THEN ReturnFalse(w) ELSE LegacyAfterCount(w)
    /\ UNCHANGED <<cfgv, sumv, foldv, completed, is_canceled, is_done, d_total, canceled_at,
                   tokens, now, resp, chan, a_pc, a_msg, statv, is_stopped, stopped_at,
                   s_pc, timer_left, o_pc, workers_done,
                   k_pc, cancels, sent, admit_obs, late, permits>>

\* `loop { if limiter.check().is_ok() { break } sleep(100 ns) }`, then `true`
LegacyLimit(w) ==
    /\ pc[w] = "limit" /\ tokens > 0
    /\ tokens' = tokens - 1
    /\ permits' = IF audit THEN [permits EXCEPT ![now] = @ + 1] ELSE permits
    /\ ReturnTrue(w)
    /\ UNCHANGED <<cfgv, sumv, foldv, dispv, now, resp, chan, a_pc, a_msg, statv,
                   is_stopped, stopped_at, s_pc, timer_left, o_pc,
                   workers_done, k_pc, cancels, sent, admit_obs, late>>

\* complete_job(&mut self): exclusive access, so no try_apply_job is under way
LegacyCompleteJob(w) ==
    /\ pc[w] = "complete" /\ mode = "count" /\ readers = {}
    /\ completed' = completed + 1
    /\ is_done' = IF completed + 1 >= total /\ ~is_done THEN TRUE ELSE is_done
    /\ Goto(w, "send") /\ Log(w, "complete") /\ NoteLate(w)
    /\ UNCHANGED <<cfgv, sumv, foldv, applied, is_canceled, d_total, canceled_at,
                   tokens, readers, now, resp, chan, a_pc, a_msg, statv,
                   is_stopped, stopped_at, s_pc, timer_left, o_pc,
                   workers_done, k_pc, cancels, admitted, sent, admit_obs,
                   permits>>

\* the worker loop of task.rs over the CountDispatcher of task/dispatcher.rs
LegacyWorker(w) ==
    \/ LegacyTryApplyJob(w) \/ LegacyCountLoad(w) \/ LegacyCountFetch(w)
    \/ LegacyLimit(w) \/ BuildRequest(w) \/ Execute(w)
    \/ LegacyCompleteJob(w) \/ Send(w)

LegacyNext ==
    \/ \E w \in Workers : LegacyWorker(w)
    \/ Aggregator
    \/ RunStart
    \/ JoinWorkers
    \/ Tick

\* CountDispatcher::new(total, rate), with or without limiter; cancel() is
\* not called
LegacyInit ==
    \E c \in CountConfigs :
        c.cancel_budget = 0 /\ ~c.audit /\ Plain(c) /\ Start(c)

LegacySpec == LegacyInit /\ [][LegacyNext]_vars

\* the runs of the engine with a limiter, the history of its permits kept
LimiterInit ==
    \E c \in Configs :
        /\ c.rate >= 1 /\ c.audit /\ c.cancel_budget < MaxCancels
        /\ Plain(c) /\ Start(c)

LimiterSpec == LimiterInit /\ [][EngineNext]_vars

\* One worker, the aggregator and the orchestrator steps they wait for, with a
\* server that answers with any status of Codes and errors that may carry one
FoldNext ==
    \/ \E w \in Workers : Worker(w)
    \/ Aggregator
    \/ RunStart
    \/ JoinWorkers
    \/ Tick

FoldInit ==
    \E c \in Configs :
        /\ c.ok_codes = Codes /\ c.err_codes = Codes
        /\ c.connections = 1 /\ c.cancel_budget = 0 /\ ~c.audit
        /\ Start(c)

FoldSpec == FoldInit /\ [][FoldNext]_vars

\* Statistics::summary on its own.  The state in which run() calls it after a
\* run of one worker that folded the successes whose elapsed times are et, with
\* the percentiles ps requested.
AtSummary(et, ps) ==
    /\ mode = "count" /\ total = Len(et) /\ duration = 0
    /\ rate = 0 /\ rate_arg = 0 - 1 /\ build_ok = TRUE
    /\ connections = 1 /\ cancel_budget = 0
    /\ audit = FALSE
    /\ ok_codes = {200} /\ err_codes = {}
    /\ rsp = [b \in Buckets |-> IF b = "rsp2xx" THEN Len(et) ELSE 0]
    /\ coded_errors = 0
    /\ applied = Len(et) /\ completed = Len(et)
    /\ is_canceled = FALSE /\ is_done = (Len(et) >= 1)
    /\ d_total = 0 /\ canceled_at = -1
    /\ tokens = 0
    /\ readers = {}
    /\ now = 0
    /\ pc = [w \in Workers |-> IF w <= 1 THEN "exited" ELSE "absent"]
    /\ resp = [w \in Workers |-> NoMessage]
    /\ chan = <<>>
    /\ a_pc = "exited" /\ a_msg = NoMessage
    /\ stat_total = Len(et) /\ total_success = Len(et) /\ current_cumulative = 0
    /\ errors = NoErrors /\ elapsed_time = et
    /\ percentiles = ps /\ latencies = <<>>
    /\ avg_req_elapsed_time = 0 /\ max_req_elapsed_time = 0
    /\ stdev_req_elapsed_time = 0
    /\ stdev_per_second = Zero /\ throughput = Zero
    /\ sm_pc = "start" /\ sm_i = 1
    /\ req_per_second = <<Len(et)>>
    /\ is_stopped = TRUE /\ stopped_at = "some"
    /\ s_pc = "exited" /\ timer_left = Period
    /\ o_pc = "summary" /\ workers_done = TRUE
    /\ k_pc = "idle" /\ cancels = 0
    /\ admitted = Len(et) /\ sent = Len(et)
    /\ trace = [w \in Workers |-> <<>>]
    /\ admit_obs = {}
    /\ late = [w \in Workers |-> 0]
    /\ permits = [t \in 0..MaxTime |-> 0]

\* sequences over S of length n at most
RECURSIVE SeqsUpTo(_, _)
SeqsUpTo(S, n) ==
    IF n = 0 THEN {<<>>}
    ELSE LET shorter == SeqsUpTo(S, n - 1)
         IN  shorter \cup {Append(t, x) : t \in shorter, x \in S}

SummaryInit ==
    \E et \in SeqsUpTo(1..MaxElapsed, MaxElapsed) :
        \E ps \in SeqsUpTo(Percents, 2) : AtSummary(et, ps)

SummarySpec == SummaryInit /\ [][Summary]_vars

\* the summary task is polled until it returns
FairSummarySpec == SummarySpec /\ WF_vars(Summary)

\* Task::new: new_limiter builds a Limiter when arg.rate is Some(rate);
\* Limiter::new unwraps NonZeroU32::new(rate as u32), which is None for 0: the
\* panic ends main before any task runs
TaskNew ==
    /\ o_pc = "new"
    /\ IF rate_arg = 0
         THEN o_pc' = "failed" /\ UNCHANGED tokens
         ELSE o_pc' = "start" /\ tokens' = rate
    /\ UNCHANGED <<cfgv, sumv, foldv, dispv, readers, now, pc, resp, chan, a_pc,
                   a_msg, statv, is_stopped, stopped_at, s_pc, timer_left,
                   workers_done, k_pc, cancels, histv>>

\* main from the parsed arguments on: --rate accepts every u16, 0 included
ConstructInit ==
    \E c \in RunConfigs :
        \E given \in {AsArg(c.rate)} \cup (IF c.rate = 0 THEN {0} ELSE {}) :
            StartAt(c, "new", given)

ConstructNext == TaskNew \/ FoldNext

ConstructSpec == ConstructInit /\ [][ConstructNext]_vars

\* workers, channel and aggregator of Task::run, every ready task polled
PipeFairness ==
    /\ \A w \in Workers : WF_vars(Worker(w))
    /\ WF_vars(Aggregator)
    /\ WF_vars(RunStart) /\ WF_vars(JoinWorkers)
    /\ WF_vars(Tick)

FairPipeSpec == Init /\ [][FoldNext]_vars /\ PipeFairness

\* the aggregator task ends before the workers do (it is aborted, or panics):
\* its Receiver is dropped, the outcomes queued are dropped with it and every
\* send fails from then on
DropReceiver ==
    /\ Spawned /\ a_pc \in {"recv", "check"}
    /\ a_pc' = "exited"
    /\ chan' = <<>>
    /\ UNCHANGED <<cfgv, sumv, foldv, dispv, tokens, readers, now, pc, resp, a_msg,
                   statv, is_stopped, stopped_at, s_pc, timer_left, o_pc,
                   workers_done, k_pc, cancels, histv>>

\* the workers and the aggregator, with an aggregator that may end early
OrphanNext == FoldNext \/ DropReceiver

OrphanSpec == Init /\ [][OrphanNext]_vars

\* the runs of the engine in which cancel() is called again and again
RecancelInit ==
    \E c \in Configs :
        c.cancel_budget = MaxCancels /\ ~c.audit /\ Plain(c) /\ Start(c)

RecancelSpec == RecancelInit /\ [][EngineNext]_vars

\* ------------------------------------------------------------- properties
Spawn == {w \in Workers : w <= connections}
AllReturned == \A w \in Workers : Returned(w)
AllExited == \A w \in Spawn : pc[w] = "exited"

RECURSIVE SumOver(_, _, _)
SumOver(f, lo, hi) == IF lo > hi THEN 0 ELSE f[lo] + SumOver(f, lo + 1, hi)

IsPrefix(s, t) == Len(s) <= Len(t) /\ \A i \in 1..Len(s) : s[i] = t[i]

\* C1: a CountDispatcher(N) shared by the workers never returns true more than
\* N times, and once every worker has left its loop, without a cancel and
\* without a worker lost on the way, it has returned true exactly N times.
CountAdmitsExactlyTotal ==
    mode = "count" =>
        /\ admitted <= total
        /\ (AllExited /\ ~is_canceled /\ cancels = 0 /\ k_pc = "idle")
               => admitted = total

\* C1 witness: one job, several workers, the reservation race was lost by one
\* of them (applied ran past total), and exactly one job was admitted.
CountAdmitsExactlyTotalWitness ==
    /\ mode = "count" /\ total = 1 /\ connections >= 2
    /\ AllExited /\ cancels = 0 /\ k_pc = "idle"
    /\ applied > total /\ admitted = 1

\* C3: once cancel() has returned no try_apply_job call returns true, and a
\* call that starts after that returns false (the worker leaves its loop).
NoAdmissionAfterCancel ==
    [][CancelReturned =>
          /\ admitted' = admitted
          /\ \A w \in Workers :
                (pc[w] = "apply" /\ pc'[w] # "apply") => pc'[w] = "exited"]_vars

\* C3 witness: a DurationDispatcher before its deadline and not done, canceled,
\* one worker refused on that account while another was still in its request.
NoAdmissionAfterCancelWitness ==
    /\ mode = "duration" /\ CancelReturned /\ ~Expired(now) /\ ~is_done
    /\ \E w \in Spawn : pc[w] = "exited"
    /\ \E w \in Spawn : pc[w] = "execute"

\* C4: every admission of a DurationDispatcher read the clock before the
\* deadline at its deadline check; a zero duration admits nothing.
AdmittedBeforeDeadline ==
    mode = "duration" =>
        /\ \A t \in admit_obs : t - start < duration
        /\ admitted > 0 => admit_obs # {}
        /\ duration = 0 => admitted = 0 /\ d_total = 0

\* C4 witness: a job was admitted at the last instant before the deadline, the
\* deadline has passed, and a worker has been refused by the deadline check.
AdmittedBeforeDeadlineWitness ==
    /\ mode = "duration" /\ duration >= 1 /\ ~is_canceled /\ ~is_done
    /\ duration - 1 \in admit_obs
    /\ Expired(now)
    /\ \E w \in Spawn : pc[w] = "exited"

\* workers that hold a permit inside a try_apply_job call not yet returned
HoldingPermit == {w \in Workers : pc[w] \in {"load", "fetch", "deadline", "dfetch"}}

\* C5: with a rate configured every admission has consumed a permit of its
\* own, and the permits issued in any window of d ticks (d / rate seconds)
\* number at most rate + d.
RateLimited ==
    (rate > 0 /\ audit) =>
        /\ admitted + Cardinality(HoldingPermit) <= SumOver(permits, 0, MaxTime)
        /\ \A t1 \in 0..(MaxTime - 1) : \A t2 \in t1..(MaxTime - 1) :
               SumOver(permits, t1, t2) <= rate + (t2 - t1)

\* C5 witness: the burst was spent at instant 0, a replenished cell at the next
\* instant, and a worker is waiting in allow() for the bucket to refill.
RateLimitedWitness ==
    /\ rate > 0 /\ audit /\ permits[0] = rate /\ permits[1] = 1 /\ now = 1
    /\ tokens = 0 /\ \E w \in Spawn : pc[w] = "limit"
    /\ admitted >= 1

\* the events of one loop iteration, in program order
Order == <<"admit", "build", "execute", "complete", "send">>

\* C9: within one worker the events of a job come in the order admission,
\* build, execute, complete_job, send, each once; nothing is built, completed
\* or sent without an admission before it.
WorkerOrder ==
    \A w \in Workers :
        /\ IsPrefix(trace[w], Order)
        /\ pc[w] = "apply" => trace[w] \in {<<>>, Order}

\* C9 witness: a worker in its second job, after a first one that went through
\* all five events.
WorkerOrderWitness ==
    \E w \in Spawn : admitted >= 2 /\ connections = 1 /\ sent = 1
                     /\ trace[w] = <<"admit", "build", "execute", "complete">>

\* C2: when the aggregator task has exited, every outcome a worker sent has
\* been received and folded exactly once: the channel is empty and
\* Statistics.total equals the number of outcomes sent (N in count mode when
\* nobody canceled and no worker was lost).
AggregatorFoldsEverySend ==
    a_pc = "exited" =>
        /\ chan = <<>>
        /\ stat_total = sent
        /\ (mode = "count" /\ AllExited /\ cancels = 0 /\ k_pc = "idle")
               => stat_total = total

\* C6: cancellation drains the workers.  Once cancel() has returned no job is
\* admitted, every worker calls complete_job at most once more (for the job it
\* had been admitted for) and leaves its loop at its next try_apply_job; with
\* requests returning, every worker has eventually left its loop.
CancelDrains ==
    /\ [](\A w \in Workers : late[w] <= 1)
    /\ [][CancelReturned =>
             /\ admitted' = admitted
             /\ \A w \in Workers :
                   /\ pc'[w] = "build" => pc[w] = "build"
                   /\ (pc[w] = "send" /\ pc'[w] # "send") => pc'[w] = "apply"
                   /\ (pc[w] = "apply" /\ pc'[w] # "apply") => pc'[w] = "exited"]_vars
    /\ (CancelReturned ~> AllReturned)

\* C6 witness: a cancel returned while the only worker had a request in
\* flight; the worker completed and sent that one, was refused and left its
\* loop, with budget remaining.
CancelDrainsWitness ==
    /\ mode = "count" /\ CancelReturned /\ AllExited
    /\ \E w \in Spawn : late[w] = 1
    /\ applied < total /\ ~is_done
    /\ sent >= 1

\* a step of one of the tasks of the run
TaskStep == (\E w \in Workers : Worker(w)) \/ Aggregator \/ Sampler \/ Orchestrator

\* a task sleeps until an instant the clock will reach: the sampler's interval,
\* a worker waiting in the limiter for a cell
TimerPending ==
    \/ s_pc = "tick" /\ timer_left > 0
    \/ tokens = 0 /\ \E w \in Workers : pc[w] = "limit"

Terminated ==
    /\ o_pc = "done" /\ AllReturned /\ workers_done
    /\ a_pc = "exited" /\ is_stopped /\ s_pc = "exited"

\* C7: with every ready task polled, the clock advancing and every request
\* returning, a run in either mode terminates: the workers return,
\* workers_done is set, the aggregator exits, the sampler exits after
\* is_stopped is set and the summary runs.  Before that some task can always
\* take a step or sleeps on a timer that will fire: there is no deadlock.
RunTerminates ==
    /\ [](o_pc # "done" => (ENABLED <<TaskStep>>_vars) \/ TimerPending)
    /\ [](s_pc = "exited" => is_stopped)
    /\ <>Terminated

\* C7 witness: a run of two workers and two jobs has terminated, both outcomes
\* went through the channel of capacity ChanCap and were folded.
RunTerminatesWitness ==
    /\ Terminated /\ connections = 2 /\ total = 2
    /\ sent = 2 /\ stat_total = 2

\* the part of Statistics the summary reads
Folded == <<stat_total, total_success, current_cumulative, errors, req_per_second>>

\* C8: shutdown is ordered.  workers_done is set only after every worker task
\* has returned, is_stopped and stopped_at only after workers_done, the
\* aggregator task has exited before the run goes on to join the sampler, the
\* sampler task has exited before the summary; from the summary on nothing
\* folds an outcome or pushes a sample.
ShutdownOrder ==
    /\ [](/\ workers_done => AllReturned
          /\ is_stopped => workers_done /\ stopped_at = "some"
          /\ stopped_at = "some" => is_stopped
          /\ o_pc \in {"join_statistics", "join_timer", "summary", "done"}
                 => is_stopped
          /\ o_pc \in {"join_timer", "summary", "done"} => a_pc = "exited"
          /\ o_pc \in {"summary", "done"} => s_pc = "exited")
    /\ [][(o_pc \in {"summary", "done"}) =>
             /\ Folded' = Folded
             /\ <<a_pc, s_pc, chan>>' = <<a_pc, s_pc, chan>>]_vars

\* C8 witness: the summary is about to run on outcomes folded and samples
\* pushed, both tasks having exited.
ShutdownOrderWitness ==
    /\ o_pc = "summary" /\ a_pc = "exited" /\ s_pc = "exited"
    /\ stat_total >= 1 /\ Len(req_per_second) >= 2

\* C10: no success is lost from or counted twice in the samples: whenever the
\* sampler is not between its load and its store and handle_message is not
\* between its two increments, the samples and current_cumulative add up to
\* total_success.
SamplesAccountForSuccesses ==
    (a_pc \notin {"success", "cumulative"} /\ s_pc # "store") =>
        SumSeq(req_per_second) + current_cumulative = total_success

\* the value of a quotient lies in [0,1] / is 1.0
InUnit(q) == q[2] > 0 /\ 0 <= q[1] /\ q[1] <= q[2]
IsOne(q) == q[2] > 0 /\ q[1] = q[2]

\* C14: on a CountDispatcher completed never exceeds applied, applied exceeds
\* total by at most one per worker, and a reservation whose previous value of
\* applied was at least total is given back: it admits no job and the worker
\* leaves its loop.
ReservationBounded ==
    /\ [](mode = "count" =>
            /\ completed <= applied
            /\ applied <= total + connections
            /\ applied > total => \E w \in Spawn : pc[w] = "exited")
    /\ [][\A w \in Workers :
             (pc[w] = "fetch" /\ pc'[w] # "fetch" /\ applied >= total) =>
                 (admitted' = admitted /\ pc'[w] = "exited")]_vars

\* C14 witness: two workers raced for the last job; applied ran one past
\* total, every job is completed and the dispatcher is done.
ReservationBoundedWitness ==
    /\ mode = "count" /\ total >= 1 /\ applied = total + 1
    /\ completed = total /\ is_done

\* C15: get_process() of either variant is a value in [0,1] in every state at
\* every instant, also past the deadline of a DurationDispatcher on which
\* is_done has not been set, and when canceled.  (Stated for budgets of one
\* request or one second at least; a zero budget divides by zero.)
ProcessInUnitInterval ==
    (IF mode = "count" THEN total >= 1 ELSE AsSecs(duration) >= 1)
        => InUnit(GetProcess)

\* no complete_job call is between its fetch_add and its is_done check
NoCompleteInProgress == \A w \in Workers : pc[w] # "ccheck"

\* C16, as stated: a CountDispatcher on which complete_job has been called as
\* many times as the value of applied (once at least) reports 1.0.
CompletedAppliedIsFull ==
    (mode = "count" /\ completed = applied /\ completed >= 1
       /\ NoCompleteInProgress)
        => IsOne(CountProcess)

\* C16, amended: a CountDispatcher with total >= 1 on which complete_job has
\* been called total times reports 1.0, inside the last complete_job call
\* (is_done not yet stored) as well as after it.
CompletedTotalIsFull ==
    (mode = "count" /\ total >= 1 /\ completed >= total) => IsOne(CountProcess)

\* C16 witness: the last complete_job call has added to completed and has not
\* yet stored is_done, while applied ran past total in the reservation race.
CompletedTotalIsFullWitness ==
    /\ mode = "count" /\ total >= 1 /\ completed = total /\ ~is_done
    /\ applied > total
    /\ \E w \in Spawn : pc[w] = "ccheck"

\* C17: a second or later cancel() changes no dispatcher state: canceled_at
\* keeps the instant of the first call, and the progress reported while
\* canceled no longer changes.
CancelIdempotent ==
    /\ [][(is_canceled /\ cancels' # cancels) => dispv' = dispv]_vars
    /\ [][is_canceled => canceled_at' = canceled_at]_vars
    /\ [][(is_canceled /\ mode = "duration" /\ ~is_done') =>
             GetProcess' = GetProcess]_vars

\* C17 witness: a DurationDispatcher canceled twice, the second time at a
\* later instant than the one canceled_at holds.
CancelIdempotentWitness ==
    /\ mode = "duration" /\ cancels = 2 /\ is_canceled
    /\ canceled_at >= 0 /\ canceled_at < now /\ ~is_done

\* C18: Open -> Done and Open -> Canceled, both terminal: neither flag is
\* ever reset, a canceled dispatcher never becomes done and a done one never
\* becomes canceled.
TerminalStates ==
    [][/\ is_done => is_done'
       /\ is_canceled => is_canceled'
       /\ is_canceled => (is_done' = is_done)
       /\ is_done => (is_canceled' = is_canceled)]_vars

\* no handle_message call is in progress
NotFolding == a_pc \in {"recv", "check", "exited"}

\* C11: whenever no handle_message call is in progress, and so after
\* shutdown, total is total_success plus the number of errors counted in the
\* errors map.
TotalIsSuccessPlusErrors ==
    NotFolding => stat_total = total_success + error_count

\* C11 witness: the run is over, outcomes of both kinds were folded.
TotalIsSuccessPlusErrorsWitness ==
    o_pc = "done" /\ total_success >= 1 /\ error_count >= 1

RECURSIVE SumRsp(_)
SumRsp(bs) ==
    IF bs = {} THEN 0
    ELSE LET b == CHOOSE x \in bs : TRUE IN rsp[b] + SumRsp(bs \ {b})

\* the fold of a_msg adds one to the counter b and leaves the others alone
BumpsOnly(b) == rsp' = [rsp EXCEPT ![b] = @ + 1]

\* C12: folding an Ok outcome adds one to exactly one of the six status
\* counters, the one of its status; folding an Err adds to none when the error
\* has no status and to exactly one when it has; so between handle_message
\* calls the six counters add up to total_success plus the number of errors
\* folded that carried a status.
StatusPartition ==
    /\ [][(a_pc = "success" /\ a_pc' # "success") =>
             \E b \in Buckets : BumpsOnly(b) /\ total_success' = total_success + 1]_vars
    /\ [][(a_pc = "error" /\ a_pc' # "error") =>
             IF a_msg.status = 0
               THEN rsp' = rsp
               ELSE \E b \in Buckets : BumpsOnly(b)]_vars
    /\ [][(a_pc' = a_pc \/ a_pc \notin {"success", "error"}) => rsp' = rsp]_vars
    /\ [](NotFolding => SumRsp(Buckets) = total_success + coded_errors)

\* C12 witness: a 511 and a 512 answer, counted under rsp5xx and rsp_others, or
\* an error without status and an error with status 999, one of them counted.
StatusPartitionWitness ==
    /\ NotFolding /\ stat_total = 2
    /\ \/ rsp["rsp5xx"] = 1 /\ rsp["rsp_others"] = 1 /\ total_success = 2
       \/ error_count = 2 /\ coded_errors = 1 /\ rsp["rsp_others"] = 1

\* C13: before the summary runs, whenever no handle_message call is in
\* progress, elapsed_time holds one entry per Ok outcome folded and none for an
\* Err: its length is total_success.
ElapsedPerSuccess ==
    (NotFolding /\ o_pc # "done") => elapsed_len = total_success

\* C13 witness: the summary is about to run; an Ok and an Err were folded and
\* one elapsed time is held.
ElapsedPerSuccessWitness ==
    /\ o_pc = "summary" /\ total_success = 1 /\ error_count = 1 /\ elapsed_len = 1

\* every requested percentile lies in (0,1]
ProperPercentiles ==
    \A i \in 1..Len(percentiles) : percentiles[i] > 0 /\ percentiles[i] <= 100

\* the request asks for percentiles in (0,1] of a non-empty elapsed_time
ProperRequest == ProperPercentiles /\ total_success >= 1

\* the mean of the first n entries of s
PrefixMean(s, n) == SumSeq(SubSeq(s, 1, n)) \div n

\* C19: for a non-empty elapsed_time and percentiles in (0,1] the latency step
\* of the summary completes, and when it has, latencies holds for each
\* percentile p, in the order requested, the pair of p and the mean of the
\* first floor(count * p) entries of the sorted elapsed_time.
LatenciesArePrefixMeans ==
    ProperRequest =>
        /\ sm_pc # "panicked"
        /\ sm_pc = "clear" =>
              /\ Len(latencies) = Len(percentiles)
              /\ \A i \in 1..Len(latencies) :
                    /\ latencies[i][1] = percentiles[i]
                    /\ PercentLen(Len(elapsed_time), percentiles[i]) >= 1
                    /\ latencies[i][2] =
                          PrefixMean(Sorted(elapsed_time),
                                     PercentLen(Len(elapsed_time), percentiles[i]))

\* C20: after the summary, whatever list of percentiles in (0,1] was
\* requested, latencies is in ascending order of percentile and no latency
\* exceeds max_req_elapsed_time.
LatenciesAscending ==
    (ProperPercentiles /\ sm_pc = "done") =>
        /\ \A i \in 1..Len(latencies) : \A j \in i..Len(latencies) :
               latencies[i][1] <= latencies[j][1]
        /\ \A i \in 1..Len(latencies) : latencies[i][2] <= max_req_elapsed_time

\* the summary runs on an empty elapsed_time: no outcome was a success
EmptyAtSummary == o_pc \in {"summary", "done"} /\ total_success = 0

\* C21: when elapsed_time is empty at the summary, avg_req_elapsed_time,
\* max_req_elapsed_time and stdev_req_elapsed_time stay at zero and latencies
\* stays empty, and the summary goes on to clear elapsed_time and return.
EmptySummaryKeepsDefaults ==
    /\ [](EmptyAtSummary =>
            /\ avg_req_elapsed_time = 0 /\ max_req_elapsed_time = 0
            /\ stdev_req_elapsed_time = 0 /\ latencies = <<>>
            /\ sm_pc # "panicked")
    /\ (EmptyAtSummary ~> (sm_pc = "done" /\ elapsed_time = <<>>))

\* C21 witness: a summary that was asked for percentiles of an empty
\* elapsed_time has returned.
EmptySummaryKeepsDefaultsWitness ==
    sm_pc = "done" /\ total_success = 0 /\ Len(percentiles) = 2

\* C22: after a run whose outcomes were all errors no step of the summary
\* divides by zero: throughput and stdev_per_second are finite numbers,
\* whatever samples the sampler has pushed.
SummaryFieldsFinite ==
    (total_success = 0 /\ stat_total >= 1) =>
        Finite(throughput) /\ Finite(stdev_per_second)

\* run() has gone past the joining of the workers
CarriedOn ==
    o_pc \in {"stop", "join_statistics", "join_timer", "summary", "done"}

\* C23: when build_request fails in a worker the run ends as a fatal error:
\* run() does not go on to join the workers, stop the sampler, run the
\* summary and return Ok.
BuildFailureIsFatal ==
    (\E w \in Workers : pc[w] = "panicked") => ~CarriedOn

\* C24: a worker whose send fails because the channel is closed leaves its
\* loop: its next position is the end of worker(), not another try_apply_job.
SendFailureEndsWorker ==
    [][\A w \in Workers :
          (pc[w] = "send" /\ ~ReceiverAlive /\ pc'[w] # pc[w]) =>
              pc'[w] = "exited"]_vars

\* C25: the outcome channel never holds more outcomes than its capacity, and
\* a worker waiting in its send, the channel full or not, gets to the end of
\* the send: the aggregator keeps receiving until workers_done is set.
ChannelBounded ==
    /\ [](Len(chan) <= ChanCap)
    /\ \A w \in Workers : (pc[w] = "send") ~> (pc[w] # "send")

\* C25 witness: the channel is full and a worker is suspended in its send.
ChannelBoundedWitness ==
    /\ Len(chan) = ChanCap /\ ReceiverAlive
    /\ \E w \in Workers : pc[w] = "send"

\* the counter the ranges name for a status
RangeOf(status) ==
    CASE status \in 100..199 -> "rsp1xx"
      [] status \in 200..299 -> "rsp2xx"
      [] status \in 300..399 -> "rsp3xx"
      [] status \in 400..499 -> "rsp4xx"
      [] status \in 500..511 -> "rsp5xx"
      [] OTHER -> "rsp_others"

\* C26: folding an Ok outcome adds one to the counter of its status range
\* (100-199, 200-299, 300-399, 400-499, 500-511, anything else, 512-599
\* included, under rsp_others) and to no other, and adds one to total_success
\* and to current_cumulative whatever the status.
StatusByRange ==
    /\ [][(a_pc = "success" /\ a_pc' # "success") =>
             /\ rsp' = [rsp EXCEPT ![RangeOf(a_msg.status)] = @ + 1]
             /\ total_success' = total_success + 1
             /\ a_pc' = "cumulative"]_vars
    /\ [][(a_pc = "cumulative" /\ a_pc' # "cumulative") =>
             /\ current_cumulative' = current_cumulative + 1
             /\ rsp' = rsp /\ total_success' = total_success]_vars

\* C26 witness: an Ok outcome with status 599 is being folded; it is counted
\* under rsp_others and as a success.
StatusByRangeWitness ==
    /\ a_pc = "cumulative" /\ a_msg.ok /\ a_msg.status = 599
    /\ rsp["rsp_others"] = 1 /\ total_success = 1

\* C30: folding an Err outcome adds one to total (on receipt) and one to the
\* entry of its key in the errors map, a new key starting at 1, and leaves
\* the other entries, total_success, current_cumulative and elapsed_time
\* alone; a status counter changes only when the error carries a status.
ErrFoldFrame ==
    /\ [][(a_pc = "recv" /\ a_pc' = "error") =>
             /\ stat_total' = stat_total + 1
             /\ UNCHANGED <<errors, rsp, total_success, current_cumulative,
                            elapsed_time>>]_vars
    /\ [][(a_pc = "error" /\ a_pc' # "error") =>
             LET key == ErrorKey(a_msg)
             IN  /\ DOMAIN errors' = DOMAIN errors \cup {key}
                 /\ errors'[key] = IF key \in DOMAIN errors
                                     THEN errors[key] + 1 ELSE 1
                 /\ \A k \in DOMAIN errors \ {key} : errors'[k] = errors[k]
                 /\ UNCHANGED <<stat_total, total_success, current_cumulative,
                                elapsed_time>>
                 /\ (rsp' # rsp) => a_msg.status # 0]_vars

\* C30 witness: two errors of one key and nothing else were folded.
ErrFoldFrameWitness ==
    /\ NotFolding /\ stat_total = 2 /\ total_success = 0
    /\ \E k \in DOMAIN errors : errors[k] = 2

\* C27: the limiter has no error path: for every --rate the arguments
\* accept the construction succeeds, and without --rate no worker ever waits
\* on a limiter.
LimiterNeverFails ==
    /\ o_pc # "failed"
    /\ rate_arg = 0 - 1 => \A w \in Workers : pc[w] # "limit"

\* what C28 says of a CountDispatcher in one state: is_done only with every
\* job completed; with every job completed and no complete_job call in
\* progress, is_done, so that try_apply_job refuses and get_process is 1.0
DoneWithTotal ==
    /\ is_done => completed >= total
    /\ (NoCompleteInProgress /\ completed >= total) =>
           is_done /\ Refused /\ IsOne(CountProcess)

\* C28, as stated: for every CountDispatcher, in every reachable state.
DoneIffAllCompleted == mode = "count" => DoneWithTotal

\* C28, amended: for a CountDispatcher with total >= 1.
DoneIffAllCompletedPositive == (mode = "count" /\ total >= 1) => DoneWithTotal

\* C28 witness: the last of two complete_job calls has returned, the
\* dispatcher is done and a worker is about to ask for a job.
DoneIffAllCompletedPositiveWitness ==
    /\ mode = "count" /\ total = 2 /\ completed = 2 /\ is_done
    /\ NoCompleteInProgress /\ ~is_canceled
    /\ \E w \in Spawn : pc[w] = "apply"

\* a complete_job call is made in this step
CompleteJobStep == \E w \in Workers : pc[w] = "complete" /\ pc'[w] = "send"

\* C29: on a DurationDispatcher is_done is never true before the deadline; it
\* changes only in a complete_job call that reads a clock at or past the
\* deadline, not in try_apply_job, not by time passing; and a complete_job
\* call before the deadline leaves the dispatcher as it was.
DurationDoneOnlyByComplete ==
    /\ []((mode = "duration" /\ is_done) => Expired(now))
    /\ [][(mode = "duration" /\ is_done' # is_done) =>
             (is_done' /\ CompleteJobStep /\ Expired(now))]_vars
    /\ [][(mode = "duration" /\ CompleteJobStep /\ ~Expired(now)) =>
             dispv' = dispv]_vars

\* C29 witness: a request admitted before the deadline of a run of one second
\* or more was completed after it, and the dispatcher is done.
DurationDoneOnlyByCompleteWitness ==
    /\ mode = "duration" /\ duration >= 1 /\ d_total >= 1 /\ is_done
    /\ \E w \in Spawn : pc[w] = "send"

\* the entries of req_per_second that no later push is added to
KeptApart(samples) == SubSeq(samples, 1, Min(Len(samples), SampleCap - 1))

\* C31: the sampler appends one sample on every tick and looks at is_stopped
\* only after appending, so it exits only from that check, the tick on which
\* it sees is_stopped included; req_per_second is append-only; it holds at
\* least one sample once the sampler has finished; after is_stopped is set the
\* sampler takes at most one further tick, and it exits.
SamplerFinalTick ==
    /\ [][(s_pc = "tick" /\ s_pc' # "tick") =>
             /\ s_pc' = "store"
             /\ Len(req_per_second) < SampleCap =>
                  req_per_second' = Append(req_per_second, current_cumulative)]_vars
    /\ [][(req_per_second' # req_per_second) =>
             s_pc = "tick" /\ s_pc' = "store"]_vars
    /\ [][/\ IsPrefix(KeptApart(req_per_second), req_per_second')
          /\ Len(req_per_second') >= Len(req_per_second)]_vars
    /\ [][(s_pc # "exited" /\ s_pc' = "exited") =>
             s_pc = "check" /\ is_stopped]_vars
    /\ [][(is_stopped /\ s_pc = "check") => s_pc' \in {"check", "exited"}]_vars
    /\ [][is_stopped => is_stopped']_vars
    /\ [](s_pc = "exited" => Len(req_per_second) >= 1)
    /\ (is_stopped ~> s_pc = "exited")

\* C31 witness: the sampler has finished after the workers ran to the deadline;
\* the tick it was waiting for when is_stopped was set appended its sample
SamplerFinalTickWitness ==
    /\ s_pc = "exited" /\ is_stopped /\ total_success >= 1
    /\ Len(req_per_second) = MaxSampled /\ timer_left > 0

\* the run of C32: duration mode, D = SampledDuration s, build_request
\* succeeding, so that the workers run to the deadline
SampledRun == mode = "duration" /\ duration = SampledDuration /\ build_ok

\* C32 as stated: in duration mode with D = 3 s and P = 2 s the sampler appends
\* at least 1 and at most 2 samples over the whole run
SampledRunSamples ==
    (SampledRun /\ s_pc = "exited") =>
        Len(req_per_second) >= 1 /\ Len(req_per_second) <= 2

\* C32, amended: in that run the sampler has appended at least 1 sample once
\* it has finished and at most 1 + t / 2 samples t seconds after the start,
\* so at most 2 before the deadline; is_stopped is not set before the
\* deadline, so the run does not end there.
SampledRunSamplesByTime ==
    SampledRun =>
        /\ s_pc = "exited" => Len(req_per_second) >= 1
        /\ now < Horizon => Len(req_per_second) <= now \div (2 * TicksPerSec) + 1
        /\ is_stopped => Expired(now)

\* C32 witness: the whole run has 3 samples: the sampler, waiting for its
\* tick at 4 s when is_stopped was set, appended the third and finished
SampledRunSamplesByTimeWitness ==
    /\ SampledRun /\ o_pc = "done" /\ s_pc = "exited"
    /\ Len(req_per_second) = 3 /\ total_success >= 1

\* complete_job calls made so far: a CountDispatcher counts them in completed;
\* every call of a DurationDispatcher is followed by the send of its outcome
CompleteCalls ==
    IF mode = "count" THEN completed
    ELSE sent + Cardinality({w \in Workers : pc[w] = "send"})

\* jobs admitted and not yet completed
InFlight == admitted - CompleteCalls

\* C33: at every moment of a run with C workers the number of jobs admitted
\* but not yet completed is between 0 and C, and it bounds the number of
\* requests being executed: at most C requests are in flight at once.
InFlightBounded ==
    /\ InFlight >= 0 /\ InFlight <= connections
    /\ Cardinality({w \in Workers : pc[w] = "execute"}) <= InFlight

\* C33 witness: both workers of a run of two are executing a request
InFlightBoundedWitness ==
    /\ connections = 2 /\ InFlight = 2
    /\ \A w \in Workers : pc[w] = "execute"

\* C34: in every reachable state of a run the pipeline counts are ordered:
\* outcomes folded by the aggregator (Statistics.total) <= outcomes sent on the
\* channel <= complete_job calls <= jobs admitted, and in count mode jobs
\* admitted <= N.
PipelineOrdered ==
    /\ stat_total <= sent
    /\ sent <= CompleteCalls
    /\ CompleteCalls <= admitted
    /\ mode = "count" => admitted <= total

\* C34 witness: a count run of two workers and N = 2: both jobs admitted and
\* completed, one outcome sent and waiting in the channel, none folded yet
PipelineOrderedWitness ==
    /\ mode = "count" /\ total = 2 /\ admitted = 2 /\ completed = 2
    /\ sent = 1 /\ stat_total = 0

\* C35: during an orchestrated run the receiver is alive whenever a worker
\* sends: the aggregator task does not exit before workers_done is set, and
\* workers_done is set only after every worker task has returned, so no send
\* finds the channel closed.
ReceiverOutlivesWorkers ==
    /\ a_pc = "exited" => workers_done
    /\ workers_done => \A w \in Workers : Returned(w)
    /\ \A w \in Workers : pc[w] = "send" => ReceiverAlive

\* C35 witness: a worker is in its send, after an earlier send, while the
\* aggregator, having found the channel empty, is about to look at
\* workers_done
ReceiverOutlivesWorkersWitness ==
    /\ a_pc = "check" /\ sent >= 1 /\ ~workers_done
    /\ \E w \in Workers : pc[w] = "send"

\* C36: the CountDispatcher of task/dispatcher.rs refuses admission on
\* exhaustion: a try_apply_job that reads applied >= total returns false, so
\* across any interleaving of the workers it returns true at most total times
\* (looked at for total >= 1).
LegacyAdmitsAtMostTotal == total >= 1 => admitted <= total
====
